---- MODULE Spec2Model ----
(***************************************************************************)
(* Reprojection Service (src/main.py): a FastAPI application exposing      *)
(* /, /health, /reproject and /detect over pyproj.                         *)
(*                                                                         *)
(* A Python float is modelled as a decimal fixed-point number with nine    *)
(* fractional digits: Num(i, f) stands for i + f / 10^9 with 0 <= f < 10^9 *)
(* (i is the floor).  NaN is a value of its own; None is Python's None.    *)
(* Every request is served by a worker thread; a handler is split at the   *)
(* return of _transform, the only place where it calls out.                *)
(***************************************************************************)
EXTENDS Integers, Sequences, FiniteSets, TLC

VARIABLES pc, req, loc, resp, calls, attempts, engine

vars == <<pc, req, loc, resp, calls, attempts, engine>>

(* ------------------------------ bounds -------------------------------- *)

\* Longest list of points a bulk request body carries.
MaxBatch == 2

(* ------------------------------ numbers ------------------------------- *)

Giga == 10^9

None == [k |-> "none"]

NaN == [k |-> "nan"]

Num(i, f) == [k |-> "num", i |-> i, f |-> f]

\* Python's  a < b  on floats: false whenever an operand is NaN.
Less(a, b) ==
    /\ a.k = "num"
    /\ b.k = "num"
    /\ \/ a.i < b.i
       \/ a.i = b.i /\ a.f < b.f

\* The digits kept by  round(X, 8).
NDIGITS == 8

\* Python's  round(v, nd)  for nd <= 9: nearest multiple of 10^-nd, a tie
\* going to the even multiple; NaN stays NaN.
round(v, nd) ==
    IF v.k # "num" THEN v ELSE
    LET step == 10^(9 - nd)
        q    == v.f \div step
        r    == v.f % step
        up   == (2 * r > step) \/ (2 * r = step /\ q % 2 = 1)
        f2   == (IF up THEN q + 1 ELSE q) * step
    IN  IF f2 = Giga THEN Num(v.i + 1, 0) ELSE Num(v.i, f2)

(* ------------------------- reference systems -------------------------- *)

EPSG == {"EPSG:25829", "EPSG:25830", "EPSG:4326"}

\* A reference-system string outside the Literal, as a client may send it.
OtherCRS == {"EPSG:3857"}

\* The crs key of a /detect body may be missing or carry JSON null.
Absent == "<absent>"

Null == "<null>"

\* DetectIn.crs after parsing when no identifier was given (Python None).
NoCrs == "None"

(* ------------------------- the pyproj engine -------------------------- *)

\* The engine is deterministic: it fails to resolve any reference system
\* when its database is unavailable, and fails to project one coordinate.
EngineStates == {"ok", "nodb"}

XBad == Num(999, 0)

ResolveCause == "no database context specified"

ProjectCause == "invalid projection input"

NoneCause == "Invalid projection: None"

Nudge(v, n) ==
    LET s == v.f + n
    IN  IF s >= Giga THEN Num(v.i + 1, s - Giga) ELSE Num(v.i, s)

SkewX(dst) ==
    IF dst = "EPSG:4326" THEN 5 ELSE IF dst = "EPSG:25829" THEN 3 ELSE 6

SkewY(src) ==
    IF src = "EPSG:4326" THEN 9 ELSE IF src = "EPSG:25829" THEN 7 ELSE 1

\* transformer.transform(x, y) with always_xy=True: first component from
\* x, second from y; the identity when src = dst.
Project(x, y, src, dst) ==
    IF src = dst
    THEN <<x, y>>
    ELSE <<Nudge(x, SkewX(dst)), Nudge(y, SkewY(src))>>

\* What the engine does on one invocation: "" when it succeeds, else the
\* text of the exception it raises.
EngineError(x, src, dst, env) ==
    IF env = "nodb" THEN ResolveCause
    ELSE IF src = NoCrs \/ dst = NoCrs THEN NoneCause
    ELSE IF x = XBad THEN ProjectCause
    ELSE ""

(* ----------------------------- responses ------------------------------ *)

NoBody == [k |-> "none"]

Response(status, detail, body) ==
    [status |-> status, detail |-> detail, body |-> body]

NoResp == Response(0, "", NoBody)

\* raise HTTPException(status_code, detail)
HTTPException(status, detail) == Response(status, detail, NoBody)

\* FastAPI's answer to a body its pydantic model rejects.
RequestValidationError(detail) == Response(422, detail, NoBody)

\* Starlette's answer to a path no route is registered for.
NotFound == Response(404, "Not Found", NoBody)

(* ------------------------- pydantic models ---------------------------- *)

\* ReprojectIn with src left an open string.
ReprojectIn_dst_only(raw) == raw.dst \in EPSG

\* ReprojectIn accepts a body whose src and dst are in the Literal (x and
\* y are floats in every body considered).
ReprojectIn(raw) == raw.src \in EPSG /\ raw.dst \in EPSG

\* BulkReprojectIn accepts a list of bodies ReprojectIn accepts.
BulkReprojectIn(raw) ==
    \A i \in 1..Len(raw.points) : ReprojectIn(raw.points[i])

\* The validator of DetectIn.crs: TRUE when it returns v, FALSE when it
\* raises ValueError.
crs_guard(v, values) ==
    ~((values.lon = None \/ values.lat = None) /\ v = NoCrs)

GuardDetail == "Debes proporcionar lon/lat o (x,y,crs)"

LiteralDetail == "unexpected value; permitted: 'EPSG:25829', 'EPSG:25830', 'EPSG:4326'"

\* DetectIn as parsed from a body: a missing or null crs is None.
DetectIn(raw) ==
    [lon |-> raw.lon, lat |-> raw.lat, x |-> raw.x, y |-> raw.y,
     crs |-> IF raw.crs \in EPSG THEN raw.crs ELSE NoCrs]

\* The validation error of a /detect body, "" when DetectIn accepts it.
\* pydantic runs a field's validators only when the body supplies the key.
DetectInError(raw) ==
    IF raw.crs = Absent THEN ""
    ELSE IF raw.crs \notin EPSG \cup {Null} THEN LiteralDetail
    ELSE IF ~crs_guard(DetectIn(raw).crs, raw) THEN GuardDetail
    ELSE ""

ZoneLiteral == {"25829", "25830"}

\* DetectOut(zone=..., epsg=...): a value outside the Literals makes the
\* constructor raise inside the handler.
DetectOut(zone, epsg) ==
    IF zone \in ZoneLiteral /\ epsg \in EPSG
    THEN Response(200, "", [k |-> "DetectOut", zone |-> zone, epsg |-> epsg])
    ELSE Response(500, "Internal Server Error", NoBody)

\* ReprojectOut built with the coordinates in y-then-x order.
ReprojectOut_swapped(X, Y, p) ==
    Response(200, "", [k |-> "ReprojectOut",
                       x |-> round(Y, NDIGITS), y |-> round(X, NDIGITS),
                       src |-> p.src, dst |-> p.dst])

\* ReprojectOut(x=round(X, 8), y=round(Y, 8), src=p.src, dst=p.dst)
ReprojectOut(X, Y, p) ==
    IF p.src \in EPSG /\ p.dst \in EPSG
    THEN Response(200, "", [k |-> "ReprojectOut",
                            x |-> round(X, NDIGITS), y |-> round(Y, NDIGITS),
                            src |-> p.src, dst |-> p.dst])
    ELSE Response(500, "Internal Server Error", NoBody)

(* ---------------------------- _transform ------------------------------ *)

\* _transform swallowing the engine's exception and handing the input back.
transform_swallow(x, y, src, dst, env) ==
    LET cause == EngineError(x, src, dst, env)
        P     == Project(x, y, src, dst)
    IN  IF cause = ""
        THEN [ok |-> TRUE, X |-> P[1], Y |-> P[2], err |-> NoResp, tries |-> 1]
        ELSE [ok |-> TRUE, X |-> x, Y |-> y, err |-> NoResp, tries |-> 1]

\* One call of _transform under engine state env: the pair it returns or
\* the HTTPException it raises, and the number of times it ran the engine.
transform(x, y, src, dst, env) ==
    LET cause == EngineError(x, src, dst, env)
        P     == Project(x, y, src, dst)
    IN  IF cause = ""
        THEN [ok |-> TRUE, X |-> P[1], Y |-> P[2], err |-> NoResp, tries |-> 1]
        ELSE [ok |-> FALSE, X |-> None, Y |-> None,
              err |-> HTTPException(400, "Transform error: " \o cause),
              tries |-> 1]

(* ---------------------------- detect_zone ----------------------------- *)

\* The first test of detect_zone with "or" for "and".
HasLonLat_either(d) == d.lon # None \/ d.lat # None

\* if d.lon is not None and d.lat is not None
HasLonLat(d) == d.lon # None /\ d.lat # None

\* The second test of detect_zone without its crs operand.
MissingXYC_no_crs(d) == d.x = None \/ d.y = None

\* if d.x is None or d.y is None or d.crs is None
MissingXYC(d) == d.x = None \/ d.y = None \/ d.crs = NoCrs

MissingDetail == "Faltan parámetros (lon/lat o x/y/crs)"

\* The meridian between zones 29 and 30.
Threshold == Num(-6, 0)

\* The decision rule with <= for <.
Zone_inclusive(lon) ==
    IF Less(lon, Threshold) \/ lon = Threshold THEN "25829" ELSE "25830"

\* zone = "25829" if lon < -6.0 else "25830"
Zone(lon) == IF Less(lon, Threshold) THEN "25829" ELSE "25830"

\* The epsg of the answer taken from the transform's destination.
EpsgOf_geographic(zone) == "EPSG:4326"

\* f"EPSG:{zone}"
EpsgOf(zone) == "EPSG:" \o zone

(* ------------------------------ routing ------------------------------- *)

\* The operations the application registers a route for.
Operations == {"serviceInfo", "health", "reproject", "detectZone"}

\* The answer of root().
ServiceInfo ==
    [k |-> "info", service |-> "Reprojection Service", version |-> "1.1.0",
     endpoints |-> <<"/health", "/reproject", "/detect", "/docs">>]

\* The answer of health().
HealthOk == [k |-> "health", status |-> "ok"]

(* ------------------------------- state -------------------------------- *)

Workers == {"w1", "w2"}

NoReq == [op |-> "none", raw |-> None]

\* The locals X, Y (lon, lat) of a handler before _transform has returned.
Unbound == [X |-> None, Y |-> None]

\* The locals kept in one module-level variable instead.
Frame_global(w) == "w1"

\* The frame holding the locals of the handler run by worker w.
Frame(w) == w

Init ==
    /\ pc = [w \in Workers |-> "idle"]
    /\ req = [w \in Workers |-> NoReq]
    /\ loc = [w \in Workers |-> Unbound]
    /\ resp = [w \in Workers |-> NoResp]
    /\ calls = [w \in Workers |-> <<>>]
    /\ attempts = [w \in Workers |-> 0]
    /\ engine \in EngineStates

\* A worker free to take a request starts it with a fresh frame.
Accept(w, op, raw) ==
    /\ pc[w] = "idle"
    /\ req' = [req EXCEPT ![w] = [op |-> op, raw |-> raw]]
    /\ loc' = [loc EXCEPT ![Frame(w)] = Unbound]
    /\ calls' = [calls EXCEPT ![w] = <<>>]
    /\ attempts' = [attempts EXCEPT ![w] = 0]
    /\ UNCHANGED engine

Finish(w, r) ==
    /\ pc' = [pc EXCEPT ![w] = "done"]
    /\ resp' = [resp EXCEPT ![w] = r]

Invoke(w, x, y, src, dst, t) ==
    /\ calls' = [calls EXCEPT ![w] =
                    Append(@, [x |-> x, y |-> y, src |-> src, dst |-> dst])]
    /\ attempts' = [attempts EXCEPT ![w] = @ + t.tries]

\* The response has been sent: the worker goes back to the pool.
release(w) ==
    /\ pc[w] = "done"
    /\ pc' = [pc EXCEPT ![w] = "idle"]
    /\ req' = [req EXCEPT ![w] = NoReq]
    /\ resp' = [resp EXCEPT ![w] = NoResp]
    /\ loc' = [loc EXCEPT ![Frame(w)] = Unbound]
    /\ calls' = [calls EXCEPT ![w] = <<>>]
    /\ attempts' = [attempts EXCEPT ![w] = 0]
    /\ UNCHANGED engine

(* ------------------------------ handlers ------------------------------ *)

root(w) ==
    /\ Accept(w, "serviceInfo", None)
    /\ Finish(w, Response(200, "", ServiceInfo))

health(w) ==
    /\ Accept(w, "health", None)
    /\ Finish(w, Response(200, "", HealthOk))

\* A request for an operation without a route.
Unrouted(w, op, raw) ==
    /\ op \notin Operations
    /\ Accept(w, op, raw)
    /\ Finish(w, NotFound)

\* POST /reproject: the body is validated, then the handler starts.
PostReproject(w, raw) ==
    /\ Accept(w, "reproject", raw)
    /\ IF ReprojectIn(raw)
       THEN /\ pc' = [pc EXCEPT ![w] = "reproject"]
            /\ resp' = [resp EXCEPT ![w] = NoResp]
       ELSE Finish(w, RequestValidationError(LiteralDetail))

\* X, Y = _transform(p.x, p.y, p.src, p.dst)
reproject_call(w) ==
    /\ pc[w] = "reproject"
    /\ LET p == req[w].raw
           t == transform(p.x, p.y, p.src, p.dst, engine)
       IN  /\ Invoke(w, p.x, p.y, p.src, p.dst, t)
           /\ IF t.ok
              THEN /\ loc' = [loc EXCEPT ![Frame(w)] = [X |-> t.X, Y |-> t.Y]]
                   /\ pc' = [pc EXCEPT ![w] = "reproject_ret"]
                   /\ UNCHANGED resp
              ELSE /\ Finish(w, t.err)
                   /\ UNCHANGED loc
    /\ UNCHANGED <<req, engine>>

\* return ReprojectOut(...)
reproject_return(w) ==
    /\ pc[w] = "reproject_ret"
    /\ Finish(w, ReprojectOut(loc[Frame(w)].X, loc[Frame(w)].Y, req[w].raw))
    /\ UNCHANGED <<req, loc, calls, attempts, engine>>

\* POST /detect: the body is validated, then the handler starts.
PostDetect(w, raw) ==
    /\ Accept(w, "detectZone", raw)
    /\ IF DetectInError(raw) = ""
       THEN /\ pc' = [pc EXCEPT ![w] = "detect_zone"]
            /\ resp' = [resp EXCEPT ![w] = NoResp]
       ELSE Finish(w, RequestValidationError(DetectInError(raw)))

\* The if/else that binds lon, lat.
detect_branch(w) ==
    /\ pc[w] = "detect_zone"
    /\ LET d == DetectIn(req[w].raw)
           t == transform(d.x, d.y, d.crs, "EPSG:4326", engine)
       IN  IF HasLonLat(d)
           THEN /\ loc' = [loc EXCEPT ![Frame(w)] = [X |-> d.lon, Y |-> d.lat]]
                /\ pc' = [pc EXCEPT ![w] = "detect_ret"]
                /\ UNCHANGED <<resp, calls, attempts>>
           ELSE IF MissingXYC(d)
           THEN /\ Finish(w, HTTPException(400, MissingDetail))
                /\ UNCHANGED <<loc, calls, attempts>>
           ELSE /\ Invoke(w, d.x, d.y, d.crs, "EPSG:4326", t)
                /\ IF t.ok
                   THEN /\ loc' = [loc EXCEPT ![Frame(w)] = [X |-> t.X, Y |-> t.Y]]
                        /\ pc' = [pc EXCEPT ![w] = "detect_ret"]
                        /\ UNCHANGED resp
                   ELSE /\ Finish(w, t.err)
                        /\ UNCHANGED loc
    /\ UNCHANGED <<req, engine>>

\* zone = ...; return DetectOut(zone=zone, epsg=f"EPSG:{zone}")
detect_return(w) ==
    /\ pc[w] = "detect_ret"
    /\ LET zone == Zone(loc[Frame(w)].X)
       IN  Finish(w, DetectOut(zone, EpsgOf(zone)))
    /\ UNCHANGED <<req, loc, calls, attempts, engine>>

\* The response to request r when it is the only request served: the
\* handler run from its first line to its return.
ServeAlone(r, env) ==
    IF r.op = "serviceInfo" THEN Response(200, "", ServiceInfo)
    ELSE IF r.op = "health" THEN Response(200, "", HealthOk)
    ELSE IF r.op = "reproject" THEN
        IF ~ReprojectIn(r.raw) THEN RequestValidationError(LiteralDetail)
        ELSE LET p == r.raw
                 t == transform(p.x, p.y, p.src, p.dst, env)
             IN  IF t.ok THEN ReprojectOut(t.X, t.Y, p) ELSE t.err
    ELSE IF r.op = "detectZone" THEN
        IF DetectInError(r.raw) # "" THEN RequestValidationError(DetectInError(r.raw))
        ELSE LET d == DetectIn(r.raw)
                 t == transform(d.x, d.y, d.crs, "EPSG:4326", env)
             IN  IF HasLonLat(d) THEN DetectOut(Zone(d.lon), EpsgOf(Zone(d.lon)))
                 ELSE IF MissingXYC(d) THEN HTTPException(400, MissingDetail)
                 ELSE IF t.ok THEN DetectOut(Zone(t.X), EpsgOf(Zone(t.X)))
                 ELSE t.err
    ELSE NotFound

(* --------------------------- request bodies --------------------------- *)

\* -6.0000001, -6.0, -5.9999999 and a longitude well east of the meridian.
LonValues == {Num(-7, Giga - 100), Num(-6, 0), Num(-6, 100), Num(-4, 300000000)}

LatValues == {Num(40, 0), Num(43, 500000000)}

XValues == {Num(-7, Giga - 5), Num(-7, Giga - 6), Num(500000, 12), XBad}

YValues == {Num(40, 4), Num(4400000, Giga - 9)}

RawCRS == EPSG \cup OtherCRS

ReprojectBodies == [x : XValues, y : YValues, src : RawCRS, dst : RawCRS]

DetectBodies ==
    [lon : LonValues \cup {NaN, None}, lat : LatValues \cup {None},
     x : XValues \cup {None}, y : {Num(40, 4), None},
     crs : RawCRS \cup {Absent, Null}]

BulkPoints ==
    { [x |-> Num(500000, 12), y |-> Num(40, 4), src |-> "EPSG:25830", dst |-> "EPSG:4326"],
      [x |-> XBad, y |-> Num(40, 4), src |-> "EPSG:25829", dst |-> "EPSG:25830"],
      [x |-> Num(-7, Giga - 5), y |-> Num(40, 4), src |-> "EPSG:4326", dst |-> "EPSG:3857"] }

BulkBodies ==
    { [points |-> ps] : ps \in UNION { [1..n -> BulkPoints] : n \in 0..MaxBatch } }

\* The bodies of the requests served side by side.
ConcReprojectBodies ==
    { b \in ReprojectBodies :
        /\ b.x \in {Num(-7, Giga - 5), XBad}
        /\ b.y = Num(40, 4)
        /\ b.src = "EPSG:25830"
        /\ b.dst \in {"EPSG:4326", "EPSG:3857"} }

ConcDetectBodies ==
    { b \in DetectBodies :
        /\ b.lon \in {Num(-7, Giga - 100), None}
        /\ b.lat = Num(40, 0)
        /\ b.x \in {Num(-7, Giga - 5), Num(-7, Giga - 6)}
        /\ b.y = Num(40, 4)
        /\ b.crs \in {"EPSG:25829", Absent} }

(* --------------------------- specifications --------------------------- *)

\* One worker serving one request after another.
Next ==
    \/ root("w1")
    \/ health("w1")
    \/ \E raw \in BulkBodies : Unrouted("w1", "reprojectBulk", raw)
    \/ \E raw \in ReprojectBodies : PostReproject("w1", raw)
    \/ reproject_call("w1")
    \/ reproject_return("w1")
    \/ \E raw \in DetectBodies : PostDetect("w1", raw)
    \/ detect_branch("w1")
    \/ detect_return("w1")
    \/ release("w1")

Spec == Init /\ [][Next]_vars

\* Two workers serving requests side by side.
NextConc ==
    \E w \in Workers :
        \/ root(w)
        \/ health(w)
        \/ Unrouted(w, "reprojectBulk", [points |-> <<>>])
        \/ \E raw \in ConcReprojectBodies : PostReproject(w, raw)
        \/ reproject_call(w)
        \/ reproject_return(w)
        \/ \E raw \in ConcDetectBodies : PostDetect(w, raw)
        \/ detect_branch(w)
        \/ detect_return(w)
        \/ release(w)

SpecConc == Init /\ [][NextConc]_vars

(* ------------------------------ claims -------------------------------- *)

Done(w, op) == pc[w] = "done" /\ req[w].op = op

Carries(raw, crsSet) ==
    \/ "src" \in DOMAIN raw /\ (raw.src \in crsSet \/ raw.dst \in crsSet)
    \/ "crs" \in DOMAIN raw /\ raw.crs \in crsSet

HasPair(raw) == raw.lon # None /\ raw.lat # None

HasTriple(raw) == raw.x # None /\ raw.y # None /\ raw.crs \in EPSG

\* v < -6.0 in fixed point: the floor of v is at most -7.
WestOfMeridian(v) == v.k = "num" /\ v.i <= -7

ZoneAnswer(w, west) ==
    /\ resp[w].status = 200
    /\ resp[w].body.k = "DetectOut"
    /\ resp[w].body.zone = IF west THEN "25829" ELSE "25830"

\* C1: a detect-zone query supplying both lon and lat is answered with zone
\* "25829" exactly when lon < -6.0 and "25830" otherwise (so for lon = -6.0
\* and for NaN), whatever lat is.
C1_ZoneByLongitude ==
    \A w \in Workers :
        (Done(w, "detectZone") /\ HasPair(req[w].raw)
            /\ ~Carries(req[w].raw, OtherCRS))
        => ZoneAnswer(w, WestOfMeridian(req[w].raw.lon))

C1_Witness ==
    \E w \in Workers :
        /\ Done(w, "detectZone")
        /\ req[w].raw.lon = Num(-6, 0)
        /\ req[w].raw.lat # None
        /\ resp[w].body = [k |-> "DetectOut", zone |-> "25830", epsg |-> "EPSG:25830"]

\* C2: a detect-zone query with neither a complete lon/lat pair nor a
\* complete x/y/crs triple is answered with a 4xx missing-input error (the
\* handler's 400, or the crs validator's rejection when crs is sent as
\* null), carries no ZoneResult, and never reaches _transform.
C2_MissingInputRejected ==
    \A w \in Workers :
        (Done(w, "detectZone") /\ ~Carries(req[w].raw, OtherCRS)
            /\ ~HasPair(req[w].raw) /\ ~HasTriple(req[w].raw))
        => /\ resp[w].status \in 400..499
           /\ resp[w].detail \in {MissingDetail, GuardDetail}
           /\ resp[w].body = NoBody
           /\ calls[w] = <<>>
           /\ attempts[w] = 0

C2_Witness ==
    \E w \in Workers :
        /\ Done(w, "detectZone")
        /\ req[w].raw.lon = None /\ req[w].raw.lat = None
        /\ req[w].raw.x = Num(500000, 12) /\ req[w].raw.y = Num(40, 4)
        /\ req[w].raw.crs = Absent
        /\ resp[w] = HTTPException(400, MissingDetail)

\* C3: _transform is only ever invoked with src and dst among the three
\* fixed identifiers; a request carrying another reference-system string
\* is rejected with no invocation at all.
C3_GatewayOnlyFixedIdentifiers ==
    \A w \in Workers :
        /\ \A i \in 1..Len(calls[w]) :
              calls[w][i].src \in EPSG /\ calls[w][i].dst \in EPSG
        /\ (req[w].op \in {"reproject", "detectZone"}
                /\ Carries(req[w].raw, OtherCRS))
           => /\ pc[w] = "done"
              /\ resp[w].status \in 400..499
              /\ resp[w].body = NoBody
              /\ calls[w] = <<>>
              /\ attempts[w] = 0
        /\ req[w].op = "reprojectBulk" => calls[w] = <<>>

C3_Witness ==
    \E w \in Workers :
        /\ Done(w, "reproject")
        /\ req[w].raw.src \in OtherCRS
        /\ req[w].raw.dst \in EPSG
        /\ resp[w].status = 422
        /\ calls[w] = <<>>

\* C4: when the engine fails inside _transform, the request ends with one
\* 400 response whose detail is "Transform error: " followed by the cause,
\* with no body, after exactly one invocation of the engine.
C4_TransformErrorSurfaced ==
    \A w \in Workers :
        (calls[w] # <<>>
            /\ EngineError(calls[w][1].x, calls[w][1].src, calls[w][1].dst, engine) # "")
        => /\ pc[w] = "done"
           /\ resp[w].status = 400
           /\ resp[w].detail = "Transform error: " \o
                  EngineError(calls[w][1].x, calls[w][1].src, calls[w][1].dst, engine)
           /\ resp[w].body = NoBody
           /\ Len(calls[w]) = 1
           /\ attempts[w] = 1

C4_Witness ==
    \E w \in Workers :
        /\ Done(w, "reproject")
        /\ engine = "ok"
        /\ req[w].raw.x = XBad
        /\ attempts[w] = 1
        /\ resp[w] = HTTPException(400, "Transform error: invalid projection input")

\* r is v rounded to 8 decimal digits: a multiple of 10^-8 at most half a
\* step away from v.
IsRounded8(r, v) ==
    /\ r.k = "num"
    /\ r.f % 10 = 0
    /\ r.i - v.i \in {-1, 0, 1}
    /\ (r.i - v.i) * Giga + (r.f - v.f) \in -5..5

\* C5: a valid point on which the engine succeeds is answered with one
\* TransformedPoint carrying the request's src and dst, whose x is the
\* engine's first output and whose y is its second, each rounded to 8
\* decimal digits.
C5_ReprojectRoundsInOrder ==
    \A w \in Workers :
        LET p == req[w].raw
        IN  (Done(w, "reproject") /\ ReprojectIn(p)
                /\ EngineError(p.x, p.src, p.dst, engine) = "")
            => /\ resp[w].status = 200
               /\ resp[w].body.k = "ReprojectOut"
               /\ resp[w].body.src = p.src
               /\ resp[w].body.dst = p.dst
               /\ IsRounded8(resp[w].body.x, Project(p.x, p.y, p.src, p.dst)[1])
               /\ IsRounded8(resp[w].body.y, Project(p.x, p.y, p.src, p.dst)[2])

C5_Witness ==
    \E w \in Workers :
        /\ Done(w, "reproject")
        /\ req[w].raw = [x |-> Num(500000, 12), y |-> Num(4400000, Giga - 9),
                         src |-> "EPSG:25829", dst |-> "EPSG:25830"]
        /\ resp[w].body = [k |-> "ReprojectOut",
                           x |-> Num(500000, 20), y |-> Num(4400001, 0),
                           src |-> "EPSG:25829", dst |-> "EPSG:25830"]

PointOk(p) == ReprojectIn(p) /\ EngineError(p.x, p.src, p.dst, engine) = ""

\* C6: a reprojectBulk request with a list of valid points is answered
\* with a list of the same length whose i-th element is what reproject
\* answers for the i-th point.
C6_BulkReturnsEachPoint ==
    \A w \in Workers :
        LET ps == req[w].raw.points
        IN  (Done(w, "reprojectBulk") /\ Len(ps) >= 1
                /\ BulkReprojectIn(req[w].raw)
                /\ \A i \in 1..Len(ps) : PointOk(ps[i]))
            => /\ resp[w].status = 200
               /\ resp[w].body.k = "list"
               /\ Len(resp[w].body.items) = Len(ps)
               /\ \A i \in 1..Len(ps) :
                     resp[w].body.items[i] =
                         ServeAlone([op |-> "reproject", raw |-> ps[i]], engine).body

\* C7: a reprojectBulk request with a failing point is answered with the
\* error reproject gives for the first failing point, and with no list.
C7_BulkFailsAtomically ==
    \A w \in Workers :
        LET ps   == req[w].raw.points
            bad  == { i \in 1..Len(ps) : ~PointOk(ps[i]) }
            first == CHOOSE i \in bad : \A j \in bad : i <= j
        IN  (Done(w, "reprojectBulk") /\ bad # {})
            => resp[w] = ServeAlone([op |-> "reproject", raw |-> ps[first]], engine)

\* C8: every ZoneResult, on the lon/lat path and on the x/y/crs path alike,
\* is zone "25829" with epsg "EPSG:25829" or zone "25830" with epsg
\* "EPSG:25830"; epsg is never "EPSG:4326".
C8_ZoneResultWellFormed ==
    \A w \in Workers :
        (req[w].op = "detectZone" /\ (resp[w].status = 200 \/ resp[w].body # NoBody))
        => /\ resp[w].body.k = "DetectOut"
           /\ \/ resp[w].body.zone = "25829" /\ resp[w].body.epsg = "EPSG:25829"
              \/ resp[w].body.zone = "25830" /\ resp[w].body.epsg = "EPSG:25830"

C8_Witness ==
    \E w \in Workers :
        /\ Done(w, "detectZone")
        /\ ~HasPair(req[w].raw)
        /\ Len(calls[w]) = 1
        /\ resp[w].body = [k |-> "DetectOut", zone |-> "25829", epsg |-> "EPSG:25829"]

\* What the locals of the handler serving r hold once _transform, or the
\* direct lon/lat binding, is behind it.
OwnLocals(r, env) ==
    IF r.op = "reproject"
    THEN LET t == transform(r.raw.x, r.raw.y, r.raw.src, r.raw.dst, env)
         IN  [X |-> t.X, Y |-> t.Y]
    ELSE IF HasPair(r.raw)
    THEN [X |-> r.raw.lon, Y |-> r.raw.lat]
    ELSE LET t == transform(r.raw.x, r.raw.y, r.raw.crs, "EPSG:4326", env)
         IN  [X |-> t.X, Y |-> t.Y]

\* C9: with requests served side by side in any interleaving, every
\* request is answered as it is when served alone, and the locals of a
\* handler hold only what that handler's own request produced.
C9_OutcomeAsWhenAlone ==
    \A w \in Workers :
        /\ pc[w] = "done" => resp[w] = ServeAlone(req[w], engine)
        /\ pc[w] \in {"reproject_ret", "detect_ret"}
           => loc[w] = OwnLocals(req[w], engine)

C9_Witness ==
    /\ Done("w1", "reproject")
    /\ resp["w1"].status = 200
    /\ pc["w2"] = "detect_ret"
    /\ calls["w2"] # <<>>
    /\ loc["w2"].X # Project(req["w1"].raw.x, req["w1"].raw.y,
                             req["w1"].raw.src, req["w1"].raw.dst)[1]

\* C10: detectZone invokes _transform exactly when the query lacks a
\* complete lon/lat pair and has a complete x/y/crs triple, once, with
\* (x, y, crs, "EPSG:4326"), and classifies on the first component of the
\* result; with both lon and lat it never invokes it and classifies on lon.
C10_GatewayOnlyOnProjectedPath ==
    \A w \in Workers :
        LET raw == req[w].raw
        IN  Done(w, "detectZone")
            => /\ Len(calls[w]) = (IF ~HasPair(raw) /\ HasTriple(raw) THEN 1 ELSE 0)
               /\ attempts[w] = Len(calls[w])
               /\ (~HasPair(raw) /\ HasTriple(raw))
                  => /\ calls[w][1] = [x |-> raw.x, y |-> raw.y,
                                       src |-> raw.crs, dst |-> "EPSG:4326"]
                     /\ EngineError(raw.x, raw.crs, "EPSG:4326", engine) = ""
                        => ZoneAnswer(w, WestOfMeridian(
                               Project(raw.x, raw.y, raw.crs, "EPSG:4326")[1]))
               /\ (HasPair(raw) /\ ~Carries(raw, OtherCRS))
                  => ZoneAnswer(w, WestOfMeridian(raw.lon))

C10_Witness ==
    \E w \in Workers :
        /\ Done(w, "detectZone")
        /\ req[w].raw.lon = Num(-4, 300000000)
        /\ req[w].raw.lat = None
        /\ HasTriple(req[w].raw)
        /\ Len(calls[w]) = 1
        /\ resp[w].body.k = "DetectOut"
        /\ resp[w].body.zone = "25829"

====
